---------------------------- MODULE Spec2Model ----------------------------
(***************************************************************************)
(* jut: a JWT decoder for the terminal (src/main.go).                      *)
(*                                                                         *)
(* A token is a sequence of one-character strings.  Everything after the   *)
(* base64 stage is a sequence of bytes (0..255), as in the Go program.     *)
(***************************************************************************)
EXTENDS Integers, Sequences, FiniteSets, TLC

(***************************************************************************)
(* Characters and bytes                                                    *)
(***************************************************************************)

\* The printable ASCII characters, code 32 to 126, in code order (code 96
\* is spelled out: the character cannot stand in a string here).
AsciiTable ==
  <<" ", "!", "\"", "#", "$", "%", "&", "'", "(", ")", "*", "+", ",", "-", ".", "/",
    "0", "1", "2", "3", "4", "5", "6", "7", "8", "9", ":", ";", "<", "=", ">", "?",
    "@", "A", "B", "C", "D", "E", "F", "G", "H", "I", "J", "K", "L", "M", "N", "O",
    "P", "Q", "R", "S", "T", "U", "V", "W", "X", "Y", "Z", "[", "\\", "]", "^", "_",
    "backquote", "a", "b", "c", "d", "e", "f", "g", "h", "i", "j", "k", "l", "m", "n", "o",
    "p", "q", "r", "s", "t", "u", "v", "w", "x", "y", "z", "{", "|", "}", "~">>

\* The byte of a printable character ("\n" is 10, "\t" 9, "\r" 13).
Ord(c) ==
  CASE c = "\n" -> 10
    [] c = "\t" -> 9
    [] c = "\r" -> 13
    [] OTHER -> 31 + (CHOOSE i \in 1..Len(AsciiTable) : AsciiTable[i] = c)

\* string(bytes) of a text: the bytes of a sequence of characters.
Bytes(cs) == [i \in 1..Len(cs) |-> Ord(cs[i])]

\* The base64url alphabet of base64.URLEncoding: value v is B64Alphabet[v+1].
B64Alphabet ==
  <<"A", "B", "C", "D", "E", "F", "G", "H", "I", "J", "K", "L", "M", "N", "O", "P",
    "Q", "R", "S", "T", "U", "V", "W", "X", "Y", "Z", "a", "b", "c", "d", "e", "f",
    "g", "h", "i", "j", "k", "l", "m", "n", "o", "p", "q", "r", "s", "t", "u", "v",
    "w", "x", "y", "z", "0", "1", "2", "3", "4", "5", "6", "7", "8", "9", "-", "_">>

InB64(c) == \E i \in 1..Len(B64Alphabet) : B64Alphabet[i] = c

B64Val(c) == (CHOOSE i \in 1..Len(B64Alphabet) : B64Alphabet[i] = c) - 1

\* F(x) with x worked out once, before F uses it.
With(x, F(_)) == CHOOSE r \in {F(y) : y \in {x}} : TRUE

RECURSIVE Repeat(_, _)
\* strings.Repeat(c, n)
Repeat(c, n) == IF n <= 0 THEN <<>> ELSE <<c>> \o Repeat(c, n - 1)

(***************************************************************************)
(* base64.URLEncoding.DecodeString                                         *)
(***************************************************************************)

\* The decoder skips carriage returns and line feeds wherever they stand.
StripNewlines(s) == SelectSeq(s, LAMBDA c : c # "\r" /\ c # "\n")

RECURSIVE DecodeQuanta(_, _, _)
\* The padded decoding of a newline-free input from position i on, one
\* 4-character quantum at a time, after the bytes acc decoded so far:
\* [ok |-> TRUE, bytes |-> ...] or [ok |-> FALSE] (CorruptInputError).
\* A quantum is four alphabet characters (3 bytes), or, as the last one,
\* "xx==" (1 byte) or "xxx=" (2 bytes); the decoder is not strict about the
\* unused trailing bits.
DecodeQuanta(s, i, acc) ==
  IF i > Len(s) THEN [ok |-> TRUE, bytes |-> acc]
  ELSE IF Len(s) < i + 3 THEN [ok |-> FALSE]
  ELSE IF ~(InB64(s[i]) /\ InB64(s[i + 1])) THEN [ok |-> FALSE]
  ELSE LET v1 == B64Val(s[i])
           v2 == B64Val(s[i + 1])
           b1 == v1 * 4 + (v2 \div 16)
       IN IF s[i + 2] = "="
          THEN IF s[i + 3] = "=" /\ Len(s) = i + 3
               THEN [ok |-> TRUE, bytes |-> Append(acc, b1)]
               ELSE [ok |-> FALSE]
          ELSE IF ~InB64(s[i + 2]) THEN [ok |-> FALSE]
          ELSE LET v3 == B64Val(s[i + 2])
                   b2 == (v2 % 16) * 16 + (v3 \div 4)
               IN IF s[i + 3] = "="
                  THEN IF Len(s) = i + 3
                       THEN [ok |-> TRUE, bytes |-> acc \o <<b1, b2>>]
                       ELSE [ok |-> FALSE]
                  ELSE IF ~InB64(s[i + 3]) THEN [ok |-> FALSE]
                  ELSE With(acc \o <<b1, b2, (v3 % 4) * 64 + B64Val(s[i + 3])>>,
                            LAMBDA acc2 : DecodeQuanta(s, i + 4, acc2))

DecodeString(s) ==
  With(StripNewlines(s), LAMBDA t : DecodeQuanta(t, 1, <<>>))

(***************************************************************************)
(* encoding/json: values, json.Unmarshal's syntax, json.Marshal            *)
(*                                                                         *)
(* A JSON value is a tagged record:                                        *)
(*   [t |-> "obj", m |-> function from keys (byte sequences) to values]    *)
(*   [t |-> "arr", a |-> sequence of values]                               *)
(*   [t |-> "str", s |-> byte sequence]                                    *)
(*   [t |-> "num", mant |-> integer, dec |-> number of decimals]           *)
(*        the float64 mant / 10^dec, with no trailing zero decimal         *)
(*   [t |-> "bool", b |-> BOOLEAN]     [t |-> "null"]                      *)
(* Escape sequences, exponents and non-ASCII text are outside the inputs   *)
(* the model draws; a backslash or an exponent is refused as a syntax      *)
(* error.                                                                  *)
(***************************************************************************)

IsDigit(b) == b >= 48 /\ b <= 57

IsSpace(b) == b = 32 \/ b = 9 \/ b = 10 \/ b = 13

RECURSIVE SkipWS(_, _)
SkipWS(b, i) == IF i <= Len(b) /\ IsSpace(b[i]) THEN SkipWS(b, i + 1) ELSE i

Fail(i) == [ok |-> FALSE, i |-> i]

RECURSIVE Pow10(_)
Pow10(n) == IF n <= 0 THEN 1 ELSE 10 * Pow10(n - 1)

RECURSIVE DigitsEnd(_, _)
\* The position after the run of digits that starts at i.
DigitsEnd(b, i) == IF i <= Len(b) /\ IsDigit(b[i]) THEN DigitsEnd(b, i + 1) ELSE i

RECURSIVE DigitsVal(_, _, _, _)
\* The number the digits b[i..j-1] spell after the digits read so far.
DigitsVal(b, i, j, acc) ==
  IF i >= j THEN acc ELSE DigitsVal(b, i + 1, j, acc * 10 + (b[i] - 48))

RECURSIVE Normalize(_, _)
\* A decimal with its trailing zero decimals dropped: 1.50 is 1.5 is 15/10.
Normalize(mant, dec) ==
  IF dec > 0 /\ mant % 10 = 0 THEN Normalize(mant \div 10, dec - 1)
  ELSE [t |-> "num", mant |-> mant, dec |-> dec]

\* A number: -? (0 | [1-9][0-9]*) (. [0-9]+)?
ParseNumber(b, i) ==
  LET neg == b[i] = 45
      s == IF neg THEN i + 1 ELSE i
      e == DigitsEnd(b, s)
  IN IF e = s THEN Fail(s)
     ELSE IF b[s] = 48 /\ e > s + 1 THEN Fail(s + 1)
     ELSE LET ip == DigitsVal(b, s, e, 0)
              hasFrac == e <= Len(b) /\ b[e] = 46
              fe == IF hasFrac THEN DigitsEnd(b, e + 1) ELSE e
          IN IF hasFrac /\ fe = e + 1 THEN Fail(fe)
             ELSE IF fe <= Len(b) /\ (b[fe] = 101 \/ b[fe] = 69) THEN Fail(fe)
             ELSE LET dec == IF hasFrac THEN fe - (e + 1) ELSE 0
                      fp == IF hasFrac THEN DigitsVal(b, e + 1, fe, 0) ELSE 0
                      mag == ip * Pow10(dec) + fp
                  IN [ok |-> TRUE, i |-> fe,
                      v |-> Normalize(IF neg THEN 0 - mag ELSE mag, dec)]

RECURSIVE StringEnd(_, _)
\* The position of the quote that closes the string whose text starts at
\* i, or 0: no closing quote, a control character, or a backslash.
StringEnd(b, i) ==
  IF i > Len(b) THEN 0
  ELSE IF b[i] = 34 THEN i
  ELSE IF b[i] < 32 \/ b[i] = 92 THEN 0
  ELSE StringEnd(b, i + 1)

\* A string: b[i] is its opening quote.
ParseString(b, i) ==
  LET e == StringEnd(b, i + 1)
  IN IF e = 0 THEN Fail(i)
     ELSE [ok |-> TRUE, i |-> e + 1,
           v |-> [t |-> "str", s |-> SubSeq(b, i + 1, e - 1)]]

\* Whether the bytes of word stand at position i.
HasWord(b, i, word) ==
  /\ i + Len(word) - 1 <= Len(b)
  /\ SubSeq(b, i, i + Len(word) - 1) = word

\* m with key k set to v: a repeated key keeps its last value.
MapPut(m, k, v) == [x \in DOMAIN m \cup {k} |-> IF x = k THEN v ELSE m[x]]

RECURSIVE ParseValue(_, _), ParseMembers(_, _, _), ParseElements(_, _, _)

\* One JSON value at position i (i is past any white space).
ParseValue(b, i) ==
  IF i > Len(b) THEN Fail(i)
  ELSE CASE b[i] = 123 ->
              With(SkipWS(b, i + 1), LAMBDA j :
                IF j <= Len(b) /\ b[j] = 125
                THEN [ok |-> TRUE, i |-> j + 1, v |-> [t |-> "obj", m |-> <<>>]]
                ELSE ParseMembers(b, j, <<>>))
         [] b[i] = 91 ->
              With(SkipWS(b, i + 1), LAMBDA j :
                IF j <= Len(b) /\ b[j] = 93
                THEN [ok |-> TRUE, i |-> j + 1, v |-> [t |-> "arr", a |-> <<>>]]
                ELSE ParseElements(b, j, <<>>))
         [] b[i] = 34 -> ParseString(b, i)
         [] b[i] = 45 \/ IsDigit(b[i]) -> ParseNumber(b, i)
         [] HasWord(b, i, Bytes(<<"t", "r", "u", "e">>)) ->
              [ok |-> TRUE, i |-> i + 4, v |-> [t |-> "bool", b |-> TRUE]]
         [] HasWord(b, i, Bytes(<<"f", "a", "l", "s", "e">>)) ->
              [ok |-> TRUE, i |-> i + 5, v |-> [t |-> "bool", b |-> FALSE]]
         [] HasWord(b, i, Bytes(<<"n", "u", "l", "l">>)) ->
              [ok |-> TRUE, i |-> i + 4, v |-> [t |-> "null"]]
         [] OTHER -> Fail(i)

\* The members of an object from position i (a key is expected there),
\* after the members m read so far, up to and including the closing brace.
ParseMembers(b, i, m) ==
  IF i > Len(b) \/ b[i] # 34 THEN Fail(i)
  ELSE With(ParseString(b, i), LAMBDA key :
    IF ~key.ok THEN Fail(i)
    ELSE With(SkipWS(b, key.i), LAMBDA c :
      IF c > Len(b) \/ b[c] # 58 THEN Fail(c)
      ELSE With(ParseValue(b, SkipWS(b, c + 1)), LAMBDA v :
        IF ~v.ok THEN Fail(v.i)
        ELSE With(SkipWS(b, v.i), LAMBDA n :
          IF n > Len(b) THEN Fail(n)
          ELSE With(MapPut(m, key.v.s, v.v), LAMBDA m2 :
            IF b[n] = 125
            THEN [ok |-> TRUE, i |-> n + 1, v |-> [t |-> "obj", m |-> m2]]
            ELSE IF b[n] = 44
            THEN With(SkipWS(b, n + 1), LAMBDA j : ParseMembers(b, j, m2))
            ELSE Fail(n))))))

\* The elements of an array from position i, after the elements a read so
\* far, up to and including the closing bracket.
ParseElements(b, i, a) ==
  With(ParseValue(b, i), LAMBDA v :
    IF ~v.ok THEN Fail(v.i)
    ELSE With(SkipWS(b, v.i), LAMBDA n :
      IF n > Len(b) THEN Fail(n)
      ELSE With(Append(a, v.v), LAMBDA a2 :
        IF b[n] = 93
        THEN [ok |-> TRUE, i |-> n + 1, v |-> [t |-> "arr", a |-> a2]]
        ELSE IF b[n] = 44
        THEN With(SkipWS(b, n + 1), LAMBDA j : ParseElements(b, j, a2))
        ELSE Fail(n))))

\* The whole input as one JSON value between optional white space:
\* [ok |-> TRUE, v |-> value] or [ok |-> FALSE] (a *json.SyntaxError).
ParseJSON(b) ==
  With(ParseValue(b, SkipWS(b, 1)), LAMBDA r :
    IF r.ok /\ SkipWS(b, r.i) > Len(b)
    THEN [ok |-> TRUE, v |-> r.v]
    ELSE [ok |-> FALSE])

RECURSIVE Itoa(_)
\* The decimal digits of n >= 0, as bytes (what %d prints).
Itoa(n) == IF n < 10 THEN <<48 + n>> ELSE Itoa(n \div 10) \o <<48 + (n % 10)>>

RECURSIVE PadDigits(_, _)
\* The digits of n, zero-filled on the left to width w.
PadDigits(n, w) ==
  IF w <= 0 THEN <<>> ELSE PadDigits(n \div 10, w - 1) \o <<48 + (n % 10)>>

\* A float64 as json.Marshal writes it (the 'f' form: the values the model
\* draws are far from the 1e-6 and 1e21 limits of that form).
MarshalNum(v) ==
  LET mag == IF v.mant < 0 THEN 0 - v.mant ELSE v.mant
      ip == mag \div Pow10(v.dec)
      fp == mag % Pow10(v.dec)
  IN (IF v.mant < 0 THEN <<45>> ELSE <<>>) \o Itoa(ip)
     \o (IF v.dec > 0 THEN <<46>> \o PadDigits(fp, v.dec) ELSE <<>>)

RECURSIVE LessBytes(_, _)
\* a < b as Go compares strings: byte by byte, a proper prefix first.
LessBytes(a, b) ==
  IF b = <<>> THEN FALSE
  ELSE IF a = <<>> THEN TRUE
  ELSE IF a[1] # b[1] THEN a[1] < b[1]
  ELSE LessBytes(Tail(a), Tail(b))

\* The least key of a non-empty set of keys.
MinKey(ks) == CHOOSE k \in ks : \A o \in ks \ {k} : LessBytes(k, o)

RECURSIVE Marshal(_), MarshalMembers(_, _), MarshalElements(_, _)

\* json.Marshal: compact, an object's keys sorted.  A nil map is null.
Marshal(v) ==
  CASE v.t = "obj" -> <<123>> \o MarshalMembers(v.m, DOMAIN v.m) \o <<125>>
    [] v.t = "arr" -> <<91>> \o MarshalElements(v.a, 1) \o <<93>>
    [] v.t = "str" -> <<34>> \o v.s \o <<34>>
    [] v.t = "num" -> MarshalNum(v)
    [] v.t = "bool" -> IF v.b THEN Bytes(<<"t", "r", "u", "e">>)
                       ELSE Bytes(<<"f", "a", "l", "s", "e">>)
    [] OTHER -> Bytes(<<"n", "u", "l", "l">>)

MarshalMembers(m, ks) ==
  IF ks = {} THEN <<>>
  ELSE With(MinKey(ks), LAMBDA k :
         <<34>> \o k \o <<34, 58>> \o Marshal(m[k])
         \o (IF ks = {k} THEN <<>> ELSE <<44>> \o MarshalMembers(m, ks \ {k})))

MarshalElements(a, i) ==
  IF i > Len(a) THEN <<>>
  ELSE Marshal(a[i])
       \o (IF i = Len(a) THEN <<>> ELSE <<44>> \o MarshalElements(a, i + 1))

\* The nil map: what "var obj map[string]interface{}" holds before, and
\* after an Unmarshal that set nothing.
NilMap == [t |-> "null"]

\* json.Unmarshal(data, &obj) for a nil obj of type map[string]interface{}.
\* Invalid syntax is a SyntaxError.  An object fills the map.  A JSON null
\* is a no-op for a map and no error: obj stays nil.  An array, a string,
\* a number or a boolean cannot be stored in a map: UnmarshalTypeError.
UnmarshalMap(data) ==
  With(ParseJSON(data), LAMBDA p :
    IF ~p.ok THEN [err |-> "SyntaxError", obj |-> NilMap]
    ELSE IF p.v.t = "obj" THEN [err |-> "nil", obj |-> p.v]
    ELSE IF p.v.t = "null" THEN [err |-> "nil", obj |-> NilMap]
    ELSE [err |-> "UnmarshalTypeError", obj |-> NilMap])

\* claims[k] of a Go map: ok is false for a missing key and for a nil map.
HasKey(claims, k) == claims.t = "obj" /\ k \in DOMAIN claims.m

(***************************************************************************)
(* decodeSegment                                                           *)
(***************************************************************************)

\* The segment with its padding repaired: "=" up to a multiple of 4.
PadSegment(seg) ==
  LET l == Len(seg) % 4
  IN IF l > 0 THEN seg \o Repeat("=", 4 - l) ELSE seg

\* decodeSegment(seg): [ok |-> TRUE, out |-> canonical JSON bytes], or
\* [ok |-> FALSE, err |-> the error]: the base64 error as it is, the JSON
\* error wrapped as "invalid JSON: <cause>".
decodeSegment(seg) ==
  With(DecodeString(PadSegment(seg)), LAMBDA dec :
    IF ~dec.ok
    THEN [ok |-> FALSE,
          err |-> [msg |-> "illegal base64 data", cause |-> "CorruptInputError"]]
    ELSE With(UnmarshalMap(dec.bytes), LAMBDA u :
           IF u.err # "nil"
           THEN [ok |-> FALSE, err |-> [msg |-> "invalid JSON", cause |-> u.err]]
           ELSE [ok |-> TRUE, out |-> Marshal(u.obj)]))

(***************************************************************************)
(* package time: instants, durations, and float64 readings of a duration   *)
(*                                                                         *)
(* An instant is [s |-> Unix seconds, ns |-> 0..Second-1].  A duration is  *)
(* sign and magnitude, [neg |-> BOOLEAN, s |-> seconds, ns |-> 0..Second-1]*)
(* (an int64 count of nanoseconds in Go; the pair keeps nanosecond         *)
(* resolution within the checker's integers).                              *)
(***************************************************************************)

\* time.Second, in nanoseconds.
Second == 1000000000

\* time.Unix(sec, 0)
timeUnix(sec) == [s |-> sec, ns |-> 0]

\* t.After(u)
After(t, u) == t.s > u.s \/ (t.s = u.s /\ t.ns > u.ns)

\* t.Before(u)
Before(t, u) == t.s < u.s \/ (t.s = u.s /\ t.ns < u.ns)

\* t - u for t not before u, as a magnitude.
Elapsed(t, u) ==
  IF t.ns >= u.ns THEN [s |-> t.s - u.s, ns |-> t.ns - u.ns]
  ELSE [s |-> t.s - u.s - 1, ns |-> t.ns + Second - u.ns]

\* t.Sub(u)
Sub(t, u) ==
  IF Before(t, u)
  THEN [neg |-> TRUE, s |-> Elapsed(u, t).s, ns |-> Elapsed(u, t).ns]
  ELSE [neg |-> FALSE, s |-> Elapsed(t, u).s, ns |-> Elapsed(t, u).ns]

\* d.Abs()
Abs(d) == [neg |-> FALSE, s |-> d.s, ns |-> d.ns]

RECURSIVE Pow2(_)
Pow2(n) == IF n <= 0 THEN 1 ELSE 2 * Pow2(n - 1)

RECURSIVE Log2Floor(_)
\* The binary exponent of n >= 1: 2^e <= n < 2^(e+1).
Log2Floor(n) == IF n < 2 THEN 0 ELSE 1 + Log2Floor(n \div 2)

\* d.Seconds(), d.Minutes() and d.Hours() are computed in float64 as
\*     float64(whole) + float64(nsec) / unit
\* with whole = d / unit and nsec = d % unit.  The sum is rounded to the
\* nearest float64, so a remainder within half a unit in the last place of
\* the next whole number gives that whole number itself.  With gap the
\* nanoseconds from d up to the next whole unit, and the unit written
\* odd * 2^tz nanoseconds, that is
\*     gap / unit < 2^(e - 53),   i.e.   gap * 2^(53 - tz - e) < odd
\* where 2^e is the binade just below whole + 1.  Such a gap is less than a
\* second: rs, the whole seconds of the remainder, is then unitSec - 1.
RoundsUp(whole, rs, ns, unitSec, tz, odd) ==
  LET e == IF whole >= 1 THEN Log2Floor(whole) ELSE 0 - 1
      n == 53 - tz - e
  IN /\ rs = unitSec - 1
     /\ ns > 0
     /\ n <= 30
     /\ Second - ns <= (odd - 1) \div Pow2(n)

\* int(d.Seconds()): the unit is 1e9 = 1953125 * 2^9 nanoseconds.
FloorSeconds(d) ==
  d.s + (IF RoundsUp(d.s, 0, d.ns, 1, 9, 1953125) THEN 1 ELSE 0)

\* int(d.Minutes()): the unit is 6e10 = 29296875 * 2^11 nanoseconds.
FloorMinutes(d) ==
  (d.s \div 60)
  + (IF RoundsUp(d.s \div 60, d.s % 60, d.ns, 60, 11, 29296875) THEN 1 ELSE 0)

\* int(d.Hours()): the unit is 3.6e12 = 439453125 * 2^13 nanoseconds.
FloorHours(d) ==
  (d.s \div 3600)
  + (IF RoundsUp(d.s \div 3600, d.s % 3600, d.ns, 3600, 13, 439453125)
     THEN 1 ELSE 0)

\* int(d.Hours() / 24).  The division by 24 never reaches the next whole
\* number by itself: a float64 below 24k is at least 1/24 of its own last
\* place below k, more than half of k's.
FloorDays(d) == FloorHours(d) \div 24

(***************************************************************************)
(* humanDuration                                                           *)
(***************************************************************************)

humanDuration(dur) ==
  LET d == Abs(dur)
  IN IF d.s < 60 THEN Itoa(FloorSeconds(d)) \o Bytes(<<"s">>)
     ELSE IF d.s < 3600 THEN Itoa(FloorMinutes(d)) \o Bytes(<<"m">>)
     ELSE IF d.s < 24 * 3600
     THEN LET h == FloorHours(d)
              m == FloorMinutes(d) % 60
          IN IF m > 0
             THEN Itoa(h) \o Bytes(<<"h", " ">>) \o Itoa(m) \o Bytes(<<"m">>)
             ELSE Itoa(h) \o Bytes(<<"h">>)
     ELSE LET days == FloorDays(d)
          IN IF days < 30 THEN Itoa(days) \o Bytes(<<"d">>)
             ELSE IF days < 365 THEN Itoa(days \div 30) \o Bytes(<<"m", "o">>)
             ELSE Itoa(days \div 365) \o Bytes(<<"y">>)

(***************************************************************************)
(* Inputs: the tokens the model draws                                      *)
(***************************************************************************)

RECURSIVE B64EncodeFrom(_, _)
\* base64.RawURLEncoding of the bytes from position i on.
B64EncodeFrom(b, i) ==
  IF i > Len(b) THEN <<>>
  ELSE LET c1 == B64Alphabet[(b[i] \div 4) + 1]
       IN IF Len(b) = i THEN <<c1, B64Alphabet[(b[i] % 4) * 16 + 1]>>
          ELSE LET c2 == B64Alphabet[(b[i] % 4) * 16 + (b[i + 1] \div 16) + 1]
               IN IF Len(b) = i + 1
                  THEN <<c1, c2, B64Alphabet[(b[i + 1] % 16) * 4 + 1]>>
                  ELSE <<c1, c2,
                         B64Alphabet[(b[i + 1] % 16) * 4 + (b[i + 2] \div 64) + 1],
                         B64Alphabet[(b[i + 2] % 64) + 1]>>
                       \o B64EncodeFrom(b, i + 3)

\* base64.RawURLEncoding.EncodeToString: how a JWT's segments are written.
B64Encode(b) == With(b, LAMBDA x : B64EncodeFrom(x, 1))

\* The JSON texts the tokens are made of, as characters.
Q == "\""

Member(key, val) == <<Q>> \o key \o <<Q, ":">> \o val

RECURSIVE JoinWith(_, _)
\* The texts of a sequence joined by the character sep.
JoinWith(texts, sep) ==
  IF texts = <<>> THEN <<>>
  ELSE IF Len(texts) = 1 THEN texts[1]
  ELSE texts[1] \o <<sep>> \o JoinWith(Tail(texts), sep)

Object(members) == <<"{">> \o JoinWith(members, ",") \o <<"}">>

\* What a payload may hold for each time claim: the text of the value, what
\* it is ("absent": the claim is left out; "num": a JSON number; "other": a
\* string or a boolean), and for a number its whole seconds, the fraction
\* dropped.
Absent == [text |-> <<>>, kind |-> "absent", sec |-> 0]
IatChoices ==
  {Absent,
   [text |-> <<"1">>, kind |-> "num", sec |-> 1],
   [text |-> <<Q, "1", Q>>, kind |-> "other", sec |-> 0]}
NbfChoices ==
  {Absent,
   [text |-> <<"3">>, kind |-> "num", sec |-> 3],
   [text |-> <<"t", "r", "u", "e">>, kind |-> "other", sec |-> 0]}
ExpChoices ==
  {Absent,
   [text |-> <<"2">>, kind |-> "num", sec |-> 2],
   [text |-> <<"2", ".", "5">>, kind |-> "num", sec |-> 2],
   [text |-> <<"3">>, kind |-> "num", sec |-> 3],
   [text |-> <<"-", "1", ".", "5">>, kind |-> "num", sec |-> -1],
   [text |-> <<Q, "2", Q>>, kind |-> "other", sec |-> 0]}

\* The members of a payload, in the order iat, nbf, exp or in the reverse.
TimeMembers(iat, nbf, exp, reversed) ==
  LET i == IF iat = <<>> THEN <<>> ELSE <<Member(<<"i", "a", "t">>, iat)>>
      n == IF nbf = <<>> THEN <<>> ELSE <<Member(<<"n", "b", "f">>, nbf)>>
      e == IF exp = <<>> THEN <<>> ELSE <<Member(<<"e", "x", "p">>, exp)>>
  IN IF reversed THEN e \o n \o i ELSE i \o n \o e

TimePayload(i, n, e, r) == Object(TimeMembers(i.text, n.text, e.text, r))

TimePayloads ==
  {TimePayload(i, n, e, r) :
     i \in IatChoices, n \in NbfChoices, e \in ExpChoices, r \in BOOLEAN}

SubPayload ==
  Object(<<Member(<<"s", "u", "b">>,
                  <<Q, "1", "2", "3", "4", "5", "6", "7", "8", "9", "0", Q>>)>>)

HeaderText ==
  Object(<<Member(<<"a", "l", "g">>, <<Q, "H", "S", "2", "5", "6", Q>>)>>)

\* A header with white space and its keys out of order.
LooseHeaderText ==
  <<" ", "{", " ", Q, "t", "y", "p", Q, " ", ":", " ", Q, "J", "W", "T", Q, ",",
    Q, "a", "l", "g", Q, ":", Q, "n", "o", "n", "e", Q, "}", "\n">>

Seg(text) == B64Encode(Bytes(text))

\* Texts that are valid JSON but no object, and one that is no JSON.
NonObjectTexts ==
  {<<"n", "u", "l", "l">>, <<"[", "1", "]">>, <<"1">>, <<Q, "s", Q>>,
   <<"t", "r", "u", "e">>}

BrokenText == <<"{", Q, "a", Q, ":">>

\* Segments that are no base64url: a bad character, a length of 1 mod 4.
BadBase64Segs == {<<"e", "!", "0">>, <<"e">>}

GoodHeaderSeg == Seg(HeaderText)

OddSegs ==
  {Seg(t) : t \in NonObjectTexts} \cup BadBase64Segs
  \cup {<<>>, Seg(BrokenText), Seg(LooseHeaderText), <<"e", "3", "0", "=">>}

FewPayloadSegs ==
  {Seg(SubPayload), Seg(Object(<<Member(<<"e", "x", "p">>, <<"2">>)>>))}

\* Signatures: the third segment, when there is one.
Signatures == {<<>>, <<"s", "i", "g">>, <<"!", "!">>}

Token(segs) == JoinWith(segs, ".")

\* The tokens whose payload is one of TimePayloads, each with the choices
\* it was written from.
TimeTokens ==
  {[raw |-> Token(<<GoodHeaderSeg, Seg(TimePayload(i, n, e, r))>>),
    iat |-> i, nbf |-> n, exp |-> e, reversed |-> r] :
     i \in IatChoices, n \in NbfChoices, e \in ExpChoices, r \in BOOLEAN}

\* Tokens of two or three segments.
WellFormedTokens ==
  {t.raw : t \in TimeTokens}
  \cup {Token(<<h, p>>) : h \in OddSegs \cup {GoodHeaderSeg},
                         p \in OddSegs \cup FewPayloadSegs}
  \cup {Token(<<h, p, s>>) : h \in {GoodHeaderSeg, <<"e">>},
                            p \in FewPayloadSegs \cup BadBase64Segs,
                            s \in Signatures}

\* Tokens of one segment and of four or five.
MaxExtraSegments == 2

RECURSIVE ExtraSegments(_)
ExtraSegments(n) ==
  IF n <= 0 THEN <<>> ELSE ExtraSegments(n - 1) \o <<<<"x">>>>

IllFormedTokens ==
  {<<>>, GoodHeaderSeg, <<"a", "b", "c">>}
  \cup {Token(<<GoodHeaderSeg, Seg(SubPayload), <<"s">>>> \o ExtraSegments(n)) :
          n \in 1..MaxExtraSegments}

\* What the command line, the pipe or the clipboard hands to getToken.
Inputs ==
  {[src |-> "arg", raw |-> t, err |-> FALSE] :
     t \in WellFormedTokens \cup IllFormedTokens}
  \cup {[src |-> "arg", raw |-> <<" ">> \o Token(<<GoodHeaderSeg, p>>) \o <<"\n">>,
         err |-> FALSE] : p \in FewPayloadSegs}
  \cup {[src |-> c, raw |-> Token(<<GoodHeaderSeg, p>>) \o <<"\n">>, err |-> e] :
          c \in {"stdin", "clipboard"}, p \in FewPayloadSegs, e \in BOOLEAN}
  \cup {[src |-> c, raw |-> t, err |-> FALSE] :
          c \in {"stdin", "clipboard"}, t \in {<<>>, <<" ", "\n">>}}

(***************************************************************************)
(* The program: one run of main                                            *)
(***************************************************************************)

VARIABLES
  pc,        \* where the run stands: "start", "split", "decodeHeader",
             \* "decodePayload", "render", "extract", "before", "expiry", "exit"
  flags,     \* [json, version]: the --json and --version flags
  input,     \* what getToken will read: [src, raw, err]
  token,     \* main's token
  parts,     \* main's parts
  header,    \* main's header: canonical JSON bytes
  payload,   \* main's payload
  claims,    \* printPretty's claims
  k,         \* extractTimestamps: the index into known of the loop
  rel,       \* extractTimestamps: rel, between its two readings of the clock
  results,   \* extractTimestamps: results
  stdout,    \* what was written to standard output, one record per section
  stderr,    \* the lines written to standard error
  exitCode,  \* the exit code; -1 while the process runs
  clock,     \* the wall clock, an instant
  ticks,     \* how often the clock has advanced
  decoded,   \* history: the indexes of the parts handed to decodeSegment
  reads,     \* history: the clock readings taken, [at, claim, t]
  phase,     \* 1: the run of a token; 2: the run of it without its signature
  first,     \* phase 2: what the run of phase 1 ended with
  hdArg,     \* the argument drawn for humanDuration
  hdRes      \* its result, <<>> before the call

vars == <<pc, flags, input, token, parts, header, payload, claims, k, rel,
          results, stdout, stderr, exitCode, clock, ticks, decoded, reads,
          phase, first, hdArg, hdRes>>

\* The clock's step, in nanoseconds, and how often it may advance in a run.
TickNs == 500000000
MaxTicks == 2

ClockStarts == {[s |-> 1, ns |-> TickNs], [s |-> 2, ns |-> 0]}

IsSpaceChar(c) == c \in {" ", "\t", "\n", "\r"}

RECURSIVE TrimLeft(_)
TrimLeft(cs) ==
  IF cs # <<>> /\ IsSpaceChar(cs[1]) THEN TrimLeft(Tail(cs)) ELSE cs

RECURSIVE TrimRight(_)
TrimRight(cs) ==
  IF cs # <<>> /\ IsSpaceChar(cs[Len(cs)])
  THEN TrimRight(SubSeq(cs, 1, Len(cs) - 1)) ELSE cs

\* strings.TrimSpace
TrimSpace(cs) == TrimRight(TrimLeft(cs))

\* The position of the first dot at or after position from, or 0.
NextDot(cs, from) ==
  IF \E i \in from..Len(cs) : cs[i] = "."
  THEN CHOOSE i \in from..Len(cs) :
         cs[i] = "." /\ \A h \in from..(i - 1) : cs[h] # "."
  ELSE 0

RECURSIVE SplitFrom(_, _)
\* The parts of cs from position from on.
SplitFrom(cs, from) ==
  With(NextDot(cs, from), LAMBDA i :
    IF i = 0 THEN <<SubSeq(cs, from, Len(cs))>>
    ELSE <<SubSeq(cs, from, i - 1)>> \o SplitFrom(cs, i + 1))

\* strings.Split(s, "."): one part more than there are dots.
Split(cs) == SplitFrom(cs, 1)

\* extractTimestamps's known, and the claim the expiry check reads.
IAT == Bytes(<<"i", "a", "t">>)
NBF == Bytes(<<"n", "b", "f">>)
EXP == Bytes(<<"e", "x", "p">>)
known == <<IAT, NBF, EXP>>

\* As IsFloat64, but a negative number is passed over too.
IsFloat64_NonNegative(claimsMap, key) ==
  /\ HasKey(claimsMap, key)
  /\ claimsMap.m[key].t = "num"
  /\ claimsMap.m[key].mant >= 0

\* val.(float64): every JSON number of an interface{} is a float64.
IsFloat64(claimsMap, key) == HasKey(claimsMap, key) /\ claimsMap.m[key].t = "num"

\* int64(f): the fraction is dropped, towards zero.
Int64(v) ==
  IF v.mant < 0 THEN 0 - ((0 - v.mant) \div Pow10(v.dec))
  ELSE v.mant \div Pow10(v.dec)

\* fatal: one line on standard error, exit code 1.
fatal(line) ==
  /\ stderr' = Append(stderr, line)
  /\ exitCode' = 1
  /\ pc' = "exit"

Unset == <<>>

Init ==
  /\ pc = "start"
  /\ flags \in [json : BOOLEAN, version : BOOLEAN]
  /\ input \in Inputs
  /\ token = Unset /\ parts = Unset /\ header = Unset /\ payload = Unset
  /\ claims = NilMap
  /\ k = 0 /\ rel = Unset /\ results = <<>>
  /\ stdout = <<>> /\ stderr = <<>> /\ exitCode = -1
  /\ clock \in ClockStarts
  /\ ticks = 0
  /\ decoded = <<>> /\ reads = <<>>
  /\ phase = 1 /\ first = Unset
  /\ hdArg = Unset /\ hdRes = Unset

\* main, lines 34-37: --version prints the version and exits 0.
Version ==
  /\ pc = "start" /\ flags.version
  /\ stdout' = Append(stdout, [sec |-> "VERSION"])
  /\ exitCode' = 0
  /\ pc' = "exit"
  /\ UNCHANGED <<flags, input, token, parts, header, payload, claims, k, rel,
                 results, stderr, clock, ticks, decoded, reads, phase, first,
                 hdArg, hdRes>>

\* main, line 39, and getToken: the argument, else the pipe, else the
\* clipboard, trimmed.
getToken ==
  /\ pc = "start" /\ ~flags.version
  /\ IF input.src = "arg"
     THEN /\ token' = TrimSpace(input.raw)
          /\ pc' = "split"
          /\ UNCHANGED <<stderr, exitCode>>
     ELSE IF input.err
     THEN /\ fatal([text |-> IF input.src = "stdin" THEN "failed to read stdin"
                             ELSE "failed to read clipboard"])
          /\ UNCHANGED token
     ELSE IF input.src = "clipboard" /\ TrimSpace(input.raw) = <<>>
     THEN /\ fatal([text |-> "clipboard is empty"])
          /\ UNCHANGED token
     ELSE /\ token' = TrimSpace(input.raw)
          /\ pc' = "split"
          /\ UNCHANGED <<stderr, exitCode>>
  /\ UNCHANGED <<flags, input, parts, header, payload, claims, k, rel, results,
                 stdout, clock, ticks, decoded, reads, phase, first, hdArg, hdRes>>

\* As splitToken, but only a token of fewer than 2 parts is refused.
splitToken_NoUpperLimit ==
  /\ pc = "split"
  /\ parts' = Split(token)
  /\ IF Len(parts') < 2
     THEN fatal([text |-> "invalid JWT: expected 2 or 3 dot-separated segments, got",
                 n |-> Len(parts')])
     ELSE /\ pc' = "decodeHeader"
          /\ UNCHANGED <<stderr, exitCode>>
  /\ UNCHANGED <<flags, input, token, header, payload, claims, k, rel, results,
                 stdout, clock, ticks, decoded, reads, phase, first, hdArg, hdRes>>

\* main, lines 40-43: split on dots; 2 or 3 parts, or the run fails.
splitToken ==
  /\ pc = "split"
  /\ parts' = Split(token)
  /\ IF Len(parts') < 2 \/ Len(parts') > 3
     THEN fatal([text |-> "invalid JWT: expected 2 or 3 dot-separated segments, got",
                 n |-> Len(parts')])
     ELSE /\ pc' = "decodeHeader"
          /\ UNCHANGED <<stderr, exitCode>>
  /\ UNCHANGED <<flags, input, token, header, payload, claims, k, rel, results,
                 stdout, clock, ticks, decoded, reads, phase, first, hdArg, hdRes>>

\* As decodeHeader, but the header is printed as soon as it is decoded.
decodeHeader_PrintsAtOnce ==
  /\ pc = "decodeHeader"
  /\ decoded' = Append(decoded, 1)
  /\ LET r == decodeSegment(parts[1])
     IN IF ~r.ok
        THEN /\ fatal([text |-> "failed to decode header", err |-> r.err])
             /\ UNCHANGED <<header, stdout>>
        ELSE /\ header' = r.out
             /\ stdout' = Append(stdout, [sec |-> "HEADER", json |-> r.out])
             /\ pc' = "decodePayload"
             /\ UNCHANGED <<stderr, exitCode>>
  /\ UNCHANGED <<flags, input, token, parts, payload, claims, k, rel, results,
                 clock, ticks, reads, phase, first, hdArg, hdRes>>

\* As decodeHeader, but its failure is reported under the payload's name.
decodeHeader_WrongName ==
  /\ pc = "decodeHeader"
  /\ decoded' = Append(decoded, 1)
  /\ LET r == decodeSegment(parts[1])
     IN IF ~r.ok
        THEN /\ fatal([text |-> "failed to decode payload", err |-> r.err])
             /\ UNCHANGED header
        ELSE /\ header' = r.out
             /\ pc' = "decodePayload"
             /\ UNCHANGED <<stderr, exitCode>>
  /\ UNCHANGED <<flags, input, token, parts, payload, claims, k, rel, results,
                 stdout, clock, ticks, reads, phase, first, hdArg, hdRes>>

\* main, lines 45-48
decodeHeader ==
  /\ pc = "decodeHeader"
  /\ decoded' = Append(decoded, 1)
  /\ LET r == decodeSegment(parts[1])
     IN IF ~r.ok
        THEN /\ fatal([text |-> "failed to decode header", err |-> r.err])
             /\ UNCHANGED header
        ELSE /\ header' = r.out
             /\ pc' = "decodePayload"
             /\ UNCHANGED <<stderr, exitCode>>
  /\ UNCHANGED <<flags, input, token, parts, payload, claims, k, rel, results,
                 stdout, clock, ticks, reads, phase, first, hdArg, hdRes>>

\* As decodePayload, but a third part is decoded as well.
decodePayload_AndSignature ==
  /\ pc = "decodePayload"
  /\ LET r == decodeSegment(parts[2])
         sig == IF Len(parts) = 3 THEN decodeSegment(parts[3]) ELSE r
     IN IF ~r.ok
        THEN /\ fatal([text |-> "failed to decode payload", err |-> r.err])
             /\ decoded' = Append(decoded, 2)
             /\ UNCHANGED payload
        ELSE IF ~sig.ok
        THEN /\ fatal([text |-> "failed to decode signature", err |-> sig.err])
             /\ decoded' = decoded \o <<2, 3>>
             /\ UNCHANGED payload
        ELSE /\ payload' = r.out
             /\ decoded' = IF Len(parts) = 3 THEN decoded \o <<2, 3>>
                           ELSE Append(decoded, 2)
             /\ pc' = "render"
             /\ UNCHANGED <<stderr, exitCode>>
  /\ UNCHANGED <<flags, input, token, parts, header, claims, k, rel, results,
                 stdout, clock, ticks, reads, phase, first, hdArg, hdRes>>

\* main, lines 50-53
decodePayload ==
  /\ pc = "decodePayload"
  /\ decoded' = Append(decoded, 2)
  /\ LET r == decodeSegment(parts[2])
     IN IF ~r.ok
        THEN /\ fatal([text |-> "failed to decode payload", err |-> r.err])
             /\ UNCHANGED payload
        ELSE /\ payload' = r.out
             /\ pc' = "render"
             /\ UNCHANGED <<stderr, exitCode>>
  /\ UNCHANGED <<flags, input, token, parts, header, claims, k, rel, results,
                 stdout, clock, ticks, reads, phase, first, hdArg, hdRes>>

\* main, lines 55-56, and printJSON: one object with the keys header and
\* payload, each holding the canonical JSON as it is.
printJSON ==
  /\ pc = "render" /\ flags.json
  /\ stdout' = Append(stdout, [sec |-> "JSON", header |-> header, payload |-> payload])
  /\ exitCode' = 0
  /\ pc' = "exit"
  /\ UNCHANGED <<flags, input, token, parts, header, payload, claims, k, rel,
                 results, stderr, clock, ticks, decoded, reads, phase, first,
                 hdArg, hdRes>>

\* main, lines 57-58, and printPretty, lines 115-135: the HEADER and the
\* PAYLOAD section, then the payload parsed again for its claims.
printPretty ==
  /\ pc = "render" /\ ~flags.json
  /\ stdout' = stdout \o <<[sec |-> "HEADER", json |-> header],
                           [sec |-> "PAYLOAD", json |-> payload]>>
  /\ LET u == UnmarshalMap(payload)
     IN IF u.err # "nil"
        THEN /\ exitCode' = 0
             /\ pc' = "exit"
             /\ UNCHANGED <<claims, k>>
        ELSE /\ claims' = u.obj
             /\ k' = 1
             /\ pc' = "extract"
             /\ UNCHANGED exitCode
  /\ UNCHANGED <<flags, input, token, parts, header, payload, rel, results,
                 stderr, clock, ticks, decoded, reads, phase, first, hdArg, hdRes>>

\* extractTimestamps, lines 182-190: a claim that is missing or no number
\* is passed over.
extractSkip ==
  /\ pc = "extract" /\ k <= Len(known)
  /\ ~IsFloat64(claims, known[k])
  /\ k' = k + 1
  /\ UNCHANGED <<pc, flags, input, token, parts, header, payload, claims, rel,
                 results, stdout, stderr, exitCode, clock, ticks, decoded, reads,
                 phase, first, hdArg, hdRes>>

\* extractTimestamps, lines 191-192: the first reading of the clock, for
\* the humanized distance.
extractSince ==
  /\ pc = "extract" /\ k <= Len(known)
  /\ IsFloat64(claims, known[k])
  /\ LET t == timeUnix(Int64(claims.m[known[k]]))
     IN rel' = humanDuration(Sub(clock, t))
  /\ reads' = Append(reads, [at |-> "since", claim |-> known[k], t |-> clock])
  /\ pc' = "before"
  /\ UNCHANGED <<flags, input, token, parts, header, payload, claims, k, results,
                 stdout, stderr, exitCode, clock, ticks, decoded, phase, first,
                 hdArg, hdRes>>

\* As extractBefore, but "in" is also said at the claim's very instant.
extractBefore_NotAfter ==
  /\ pc = "before"
  /\ LET t == timeUnix(Int64(claims.m[known[k]]))
         relative == IF ~After(clock, t) THEN Bytes(<<"i", "n", " ">>) \o rel
                     ELSE rel \o Bytes(<<" ", "a", "g", "o">>)
     IN results' = Append(results, [name |-> known[k], formatted |-> t,
                                    relative |-> relative])
  /\ reads' = Append(reads, [at |-> "before", claim |-> known[k], t |-> clock])
  /\ rel' = Unset
  /\ k' = k + 1
  /\ pc' = "extract"
  /\ UNCHANGED <<flags, input, token, parts, header, payload, claims, stdout,
                 stderr, exitCode, clock, ticks, decoded, phase, first, hdArg,
                 hdRes>>

\* extractTimestamps, lines 193-202: the second reading, for "in" or "ago".
extractBefore ==
  /\ pc = "before"
  /\ LET t == timeUnix(Int64(claims.m[known[k]]))
         relative == IF Before(clock, t) THEN Bytes(<<"i", "n", " ">>) \o rel
                     ELSE rel \o Bytes(<<" ", "a", "g", "o">>)
     IN results' = Append(results, [name |-> known[k], formatted |-> t,
                                    relative |-> relative])
  /\ reads' = Append(reads, [at |-> "before", claim |-> known[k], t |-> clock])
  /\ rel' = Unset
  /\ k' = k + 1
  /\ pc' = "extract"
  /\ UNCHANGED <<flags, input, token, parts, header, payload, claims, stdout,
                 stderr, exitCode, clock, ticks, decoded, phase, first, hdArg,
                 hdRes>>

\* As printDates, but the DATES section is printed even when it is empty.
printDates_Always ==
  /\ pc = "extract" /\ k > Len(known)
  /\ stdout' = Append(stdout, [sec |-> "DATES", lines |-> results])
  /\ pc' = "expiry"
  /\ UNCHANGED <<flags, input, token, parts, header, payload, claims, k, rel,
                 results, stderr, exitCode, clock, ticks, decoded, reads, phase,
                 first, hdArg, hdRes>>

\* printPretty, lines 135-146: the DATES section, when there are timestamps.
printDates ==
  /\ pc = "extract" /\ k > Len(known)
  /\ stdout' = IF Len(results) > 0
               THEN Append(stdout, [sec |-> "DATES", lines |-> results])
               ELSE stdout
  /\ pc' = "expiry"
  /\ UNCHANGED <<flags, input, token, parts, header, payload, claims, k, rel,
                 results, stderr, exitCode, clock, ticks, decoded, reads, phase,
                 first, hdArg, hdRes>>

\* As expiryCheck, but a token is EXPIRED from its expiry instant on.
expiryCheck_NotBefore ==
  /\ pc = "expiry"
  /\ IF IsFloat64(claims, EXP)
     THEN LET expTime == timeUnix(Int64(claims.m[EXP]))
              now == clock
          IN /\ stdout' = Append(stdout,
                  IF ~Before(now, expTime)
                  THEN [sec |-> "EXPIRY", status |-> "EXPIRED",
                        dur |-> humanDuration(Sub(now, expTime))]
                  ELSE [sec |-> "EXPIRY", status |-> "VALID",
                        dur |-> humanDuration(Sub(expTime, now))])
             /\ reads' = Append(reads, [at |-> "expiry", claim |-> EXP, t |-> now])
     ELSE UNCHANGED <<stdout, reads>>
  /\ exitCode' = 0
  /\ pc' = "exit"
  /\ UNCHANGED <<flags, input, token, parts, header, payload, claims, k, rel,
                 results, stderr, clock, ticks, decoded, phase, first, hdArg,
                 hdRes>>

\* printPretty, lines 148-162: the expiry check, with its own reading of
\* the clock.
expiryCheck ==
  /\ pc = "expiry"
  /\ IF IsFloat64(claims, EXP)
     THEN LET expTime == timeUnix(Int64(claims.m[EXP]))
              now == clock
          IN /\ stdout' = Append(stdout,
                  IF After(now, expTime)
                  THEN [sec |-> "EXPIRY", status |-> "EXPIRED",
                        dur |-> humanDuration(Sub(now, expTime))]
                  ELSE [sec |-> "EXPIRY", status |-> "VALID",
                        dur |-> humanDuration(Sub(expTime, now))])
             /\ reads' = Append(reads, [at |-> "expiry", claim |-> EXP, t |-> now])
     ELSE UNCHANGED <<stdout, reads>>
  /\ exitCode' = 0
  /\ pc' = "exit"
  /\ UNCHANGED <<flags, input, token, parts, header, payload, claims, k, rel,
                 results, stderr, clock, ticks, decoded, phase, first, hdArg,
                 hdRes>>

\* The wall clock advances while printPretty works out the dates and the
\* expiry (the only place that reads it; an earlier advance is a later
\* start).
Tick ==
  /\ pc \in {"extract", "before", "expiry"}
  /\ ticks < MaxTicks
  /\ ticks' = ticks + 1
  /\ clock' = IF clock.ns + TickNs >= Second
              THEN [s |-> clock.s + 1, ns |-> clock.ns + TickNs - Second]
              ELSE [s |-> clock.s, ns |-> clock.ns + TickNs]
  /\ UNCHANGED <<pc, flags, input, token, parts, header, payload, claims, k, rel,
                 results, stdout, stderr, exitCode, decoded, reads, phase, first,
                 hdArg, hdRes>>

RunToken ==
  \/ getToken
  \/ splitToken
  \/ decodeHeader
  \/ decodePayload
  \/ printJSON
  \/ printPretty
  \/ extractSkip
  \/ extractSince
  \/ extractBefore
  \/ printDates
  \/ expiryCheck

Next == Version \/ RunToken \/ Tick

Spec == Init /\ [][Next]_vars

(***************************************************************************)
(* The run of a token with a signature, then of the same token without it  *)
(***************************************************************************)

SigInputs ==
  {[src |-> "arg", raw |-> Token(<<h, p, sig>>), err |-> FALSE] :
     h \in {GoodHeaderSeg, <<"e">>, Seg(<<"n", "u", "l", "l">>)},
     p \in FewPayloadSegs \cup BadBase64Segs
           \cup {Seg(<<"[", "1", "]">>),
                 Seg(TimePayload(CHOOSE c \in IatChoices : c.kind = "other",
                                 Absent,
                                 CHOOSE c \in ExpChoices : c.sec = 3, TRUE))},
     sig \in Signatures \cup {GoodHeaderSeg}}

InitSig ==
  /\ pc = "start"
  /\ flags \in [json : BOOLEAN, version : {FALSE}]
  /\ input \in SigInputs
  /\ token = Unset /\ parts = Unset /\ header = Unset /\ payload = Unset
  /\ claims = NilMap
  /\ k = 0 /\ rel = Unset /\ results = <<>>
  /\ stdout = <<>> /\ stderr = <<>> /\ exitCode = -1
  /\ clock \in ClockStarts
  /\ ticks = 0
  /\ decoded = <<>> /\ reads = <<>>
  /\ phase = 1 /\ first = Unset
  /\ hdArg = Unset /\ hdRes = Unset

\* The first run is over: keep what it ended with, and start the program
\* again on the header and the payload alone, at the same time of day.
Rerun ==
  /\ pc = "exit" /\ phase = 1
  /\ first' = [token |-> token, stdout |-> stdout, stderr |-> stderr,
               exitCode |-> exitCode, decoded |-> decoded]
  /\ phase' = 2
  /\ input' = [src |-> "arg", raw |-> Token(<<parts[1], parts[2]>>), err |-> FALSE]
  /\ pc' = "start"
  /\ token' = Unset /\ parts' = Unset /\ header' = Unset /\ payload' = Unset
  /\ claims' = NilMap
  /\ k' = 0 /\ rel' = Unset /\ results' = <<>>
  /\ stdout' = <<>> /\ stderr' = <<>> /\ exitCode' = -1
  /\ decoded' = <<>> /\ reads' = <<>>
  /\ UNCHANGED <<flags, clock, ticks, hdArg, hdRes>>

NextSig == RunToken \/ Rerun

SpecSig == InitSig /\ [][NextSig]_vars

(***************************************************************************)
(* humanDuration on its own                                                *)
(***************************************************************************)

\* The durations drawn: whole days up to MaxDays, plus a time of day in
\* seconds, plus a fraction of a second in nanoseconds, of either sign.
MaxDays == 400

TimesOfDay == {0, 1, 45, 59, 60, 90, 3599, 3600, 3661, 7200, 86399}

Fractions == {0, 1, Second - 1}

Durations ==
  {[neg |-> n, s |-> d * 86400 + t, ns |-> f] :
     n \in BOOLEAN, d \in 0..MaxDays, t \in TimesOfDay, f \in Fractions}

InitHD ==
  /\ pc = "idle"
  /\ flags = [json |-> FALSE, version |-> FALSE]
  /\ input = [src |-> "arg", raw |-> <<>>, err |-> FALSE]
  /\ token = Unset /\ parts = Unset /\ header = Unset /\ payload = Unset
  /\ claims = NilMap
  /\ k = 0 /\ rel = Unset /\ results = <<>>
  /\ stdout = <<>> /\ stderr = <<>> /\ exitCode = -1
  /\ clock = [s |-> 0, ns |-> 0]
  /\ ticks = 0
  /\ decoded = <<>> /\ reads = <<>>
  /\ phase = 1 /\ first = Unset
  /\ hdArg \in Durations /\ hdRes = Unset

callHumanDuration ==
  /\ pc = "idle" /\ hdRes = Unset
  /\ hdRes' = humanDuration(hdArg)
  /\ UNCHANGED <<pc, flags, input, token, parts, header, payload, claims, k, rel,
                 results, stdout, stderr, exitCode, clock, ticks, decoded, reads,
                 phase, first, hdArg>>

NextHD == callHumanDuration

SpecHD == InitHD /\ [][NextHD]_vars

(***************************************************************************)
(* The properties                                                          *)
(***************************************************************************)

Range(f) == {f[x] : x \in DOMAIN f}

\* What standard output holds, by section.
Sections == [i \in 1..Len(stdout) |-> stdout[i].sec]

\* The dots of a text, counted one by one.
DotCount(cs) == Cardinality({i \in 1..Len(cs) : cs[i] = "."})

InvalidStructure == "invalid JWT: expected 2 or 3 dot-separated segments, got"

\* C1: a token of n dot-separated segments with n = 1 or n >= 4 ends the run
\* with the invalid-structure error that reports n, and no segment is
\* decoded; with n = 2 or n = 3 there is no such error and the run goes on
\* to decode segment 0 as the header and then segment 1 as the payload.
C1_SegmentCount ==
  parts # Unset =>
    LET n == DotCount(token) + 1
    IN /\ Len(parts) = n
       /\ IF n = 1 \/ n >= 4
          THEN /\ pc = "exit" /\ exitCode = 1
               /\ Len(stderr) = 1
               /\ stderr[1].text = InvalidStructure
               /\ stderr[1].n = n
               /\ decoded = <<>>
               /\ stdout = <<>>
          ELSE /\ \A i \in 1..Len(stderr) : stderr[i].text # InvalidStructure
               /\ \/ pc = "decodeHeader" /\ decoded = <<>>
                  \/ pc = "decodePayload" /\ decoded = <<1>>
                  \/ pc = "exit" /\ exitCode = 1 /\ decoded = <<1>>
                  \/ pc = "exit" /\ exitCode = 1 /\ decoded = <<1, 2>>
                  \/ pc \notin {"decodeHeader", "decodePayload"}
                     /\ exitCode # 1 /\ decoded = <<1, 2>>

\* A token of four segments was refused.
C1_Witness ==
  /\ parts # Unset /\ Len(parts) = 4
  /\ pc = "exit" /\ exitCode = 1
  /\ stderr = <<[text |-> InvalidStructure, n |-> 4]>>

\* The segment is no base64url, or what it holds is no JSON, or is a JSON
\* array, string, number or boolean.
SegmentFails(seg) ==
  With(DecodeString(PadSegment(seg)), LAMBDA d :
    \/ ~d.ok
    \/ With(ParseJSON(d.bytes), LAMBDA p :
         ~p.ok \/ p.v.t \in {"arr", "str", "num", "bool"}))

\* getToken has handed main a token.
TokenRead ==
  /\ pc \notin {"start", "idle"}
  /\ ~flags.version
  /\ ~(input.src # "arg" /\ input.err)
  /\ ~(input.src = "clipboard" /\ TrimSpace(input.raw) = <<>>)

\* The token is one the core refuses: its count of segments, its base64 or
\* its JSON is wrong.
CoreFailure ==
  \/ DotCount(token) + 1 \notin {2, 3}
  \/ With(Split(token), LAMBDA ps : SegmentFails(ps[1]) \/ SegmentFails(ps[2]))

\* C2: every failure ends the run with exit code 1, exactly one line on
\* standard error and nothing on standard output, under --json and without
\* it; a token the core refuses never gets anything printed, and its run
\* ends that way.
C2_FailureIsFatal ==
  /\ (stderr # <<>> \/ exitCode = 1) =>
       (pc = "exit" /\ exitCode = 1 /\ Len(stderr) = 1 /\ stdout = <<>>)
  /\ (TokenRead /\ CoreFailure) =>
       /\ stdout = <<>>
       /\ pc \in {"split", "decodeHeader", "decodePayload", "exit"}
       /\ pc = "exit" => (exitCode = 1 /\ Len(stderr) = 1)

\* Without --json, the header was decoded and the payload then failed:
\* nothing of the header was printed.
C2_Witness ==
  /\ pc = "exit" /\ exitCode = 1 /\ ~flags.json
  /\ decoded = <<1, 2>>
  /\ header # Unset
  /\ Len(stderr) = 1 /\ stdout = <<>>

\* The kind of the JSON value a segment holds, "none" when it holds none.
TopLevel(seg) ==
  With(DecodeString(PadSegment(seg)), LAMBDA d :
    IF ~d.ok THEN "none"
    ELSE With(ParseJSON(d.bytes), LAMBDA p : IF p.ok THEN p.v.t ELSE "none"))

\* C3: a segment that decodeSegment accepted holds a JSON object: every
\* array and every scalar at the top level, null included, is refused.
C3_NonObjectRejected ==
  /\ header # Unset => TopLevel(parts[1]) = "obj"
  /\ payload # Unset => TopLevel(parts[2]) = "obj"

\* The time claims a payload was written with, in the fixed order.
Written(t) ==
  <<[name |-> IAT, c |-> t.iat], [name |-> NBF, c |-> t.nbf],
    [name |-> EXP, c |-> t.exp]>>

NonNegative(c) == c.kind = "num" /\ c.text[1] # "-"

AnyNumber(c) == c.kind = "num"

Names(rs) == [i \in 1..Len(rs) |-> rs[i].name]

\* extractTimestamps has gone through the whole of known.
Extracted == k > Len(known)

\* C4, as the specification states it: extractTimestamps returns exactly the
\* claims among iat, nbf, exp that are present with a non-negative number,
\* in that order.
C4_NonNegativeOnly ==
  \A t \in TimeTokens :
    (input.raw = t.raw /\ Extracted) =>
      Names(results) = Names(SelectSeq(Written(t), LAMBDA w : NonNegative(w.c)))

\* C4, amended: extractTimestamps returns exactly the claims among iat, nbf,
\* exp that are present with a JSON number of either sign, in that order
\* whatever the order of the payload's keys, each as the instant of its
\* whole seconds; a string or a boolean is passed over without an error.
C4_AnyNumber ==
  \A t \in TimeTokens :
    (input.raw = t.raw /\ Extracted) =>
      LET want == SelectSeq(Written(t), LAMBDA w : AnyNumber(w.c))
      IN /\ Names(results) = Names(want)
         /\ \A i \in 1..Len(results) :
              results[i].formatted = [s |-> want[i].c.sec, ns |-> 0]
         /\ stderr = <<>>

\* A payload with its keys in the reverse order, iat a string, nbf 3 and
\* exp -1.5: nbf and exp came out, in that order.
C4_Witness ==
  /\ Extracted
  /\ \E t \in TimeTokens :
       /\ input.raw = t.raw /\ t.reversed
       /\ t.iat.kind = "other" /\ t.nbf.sec = 3 /\ t.exp.sec = -1
  /\ Names(results) = <<NBF, EXP>>
  /\ results[2].formatted = [s |-> -1, ns |-> 0]

\* The whole seconds between an instant and a whole second of the clock.
WholeSecondsApart(now, sec) ==
  IF now.s >= sec THEN now.s - sec
  ELSE IF now.ns = 0 THEN sec - now.s ELSE sec - now.s - 1

\* C5: without a numeric exp there is no expiry line; with one, the line is
\* the last thing printed, and it says EXPIRED exactly when the clock read
\* for it is strictly after exp cut to whole seconds, VALID otherwise (at
\* the very instant too), with the distance between the two.
C5_Expiry ==
  \A t \in TimeTokens :
    (input.raw = t.raw /\ pc = "exit" /\ ~flags.version /\ ~flags.json) =>
      LET lines == SelectSeq(stdout, LAMBDA o : o.sec = "EXPIRY")
      IN /\ exitCode = 0 /\ stderr = <<>>
         /\ IF t.exp.kind # "num" THEN lines = <<>>
            ELSE /\ Len(lines) = 1
                 /\ stdout[Len(stdout)] = lines[1]
                 /\ reads # <<>> /\ reads[Len(reads)].at = "expiry"
                 /\ LET now == reads[Len(reads)].t
                        after == \/ now.s > t.exp.sec
                                 \/ now.s = t.exp.sec /\ now.ns > 0
                    IN /\ lines[1].status = IF after THEN "EXPIRED" ELSE "VALID"
                       /\ WholeSecondsApart(now, t.exp.sec) < 60
                       /\ lines[1].dur
                            = Itoa(WholeSecondsApart(now, t.exp.sec)) \o <<115>>

\* The clock read exactly the expiry instant, and the token is VALID.
C5_Witness ==
  /\ pc = "exit" /\ exitCode = 0 /\ ~flags.json /\ ~flags.version
  /\ \E t \in TimeTokens : input.raw = t.raw /\ t.exp.kind = "num" /\ t.exp.sec = 2
  /\ reads # <<>>
  /\ reads[Len(reads)] = [at |-> "expiry", claim |-> EXP, t |-> [s |-> 2, ns |-> 0]]
  /\ stdout[Len(stdout)].sec = "EXPIRY"
  /\ stdout[Len(stdout)].status = "VALID"

\* The rule table of humanDuration in whole numbers: the magnitude's whole
\* seconds, the divisions all cutting the remainder off.
RuleTable(d) ==
  LET secs == d.s
      hours == secs \div 3600
      mins == (secs \div 60) % 60
      days == hours \div 24
  IN IF secs < 60 THEN Itoa(secs) \o <<115>>
     ELSE IF secs < 3600 THEN Itoa(secs \div 60) \o <<109>>
     ELSE IF secs < 86400
     THEN IF mins = 0 THEN Itoa(hours) \o <<104>>
          ELSE Itoa(hours) \o <<104, 32>> \o Itoa(mins) \o <<109>>
     ELSE IF days < 30 THEN Itoa(days) \o <<100>>
     ELSE IF days < 365 THEN Itoa(days \div 30) \o <<109, 111>>
     ELSE Itoa(days \div 365) \o <<121>>

\* C6: humanDuration gives, for a duration and for its negation alike, the
\* string of the rule table: seconds below a minute, minutes below an hour,
\* hours with the minutes that remain below a day, then days, months of 30
\* days and years of 365 days, each division cutting the remainder off.
C6_RuleTable == hdRes # Unset => hdRes = RuleTable(hdArg)

\* On durations of whole seconds the rule table is what humanDuration gives.
C6_WholeSeconds == (hdRes # Unset /\ hdArg.ns = 0) => hdRes = RuleTable(hdArg)

\* C7: a token run with its signature and run again without it ends the
\* same way: the same standard output, standard error and exit code; and
\* the third segment is never handed to decodeSegment.
C7_SignatureIgnored ==
  /\ \A i \in 1..Len(decoded) : decoded[i] \in {1, 2}
  /\ (phase = 2 /\ pc = "exit") =>
       /\ stdout = first.stdout
       /\ stderr = first.stderr
       /\ exitCode = first.exitCode
       /\ decoded = first.decoded

\* A token whose signature is no base64url was rendered, and so was the
\* same token without the signature.
C7_Witness ==
  /\ phase = 2 /\ pc = "exit" /\ exitCode = 0 /\ ~flags.json
  /\ Len(token) + 3 = Len(first.token)
  /\ SubSeq(first.token, Len(token) + 1, Len(first.token)) = <<".", "!", "!">>
  /\ Sections = <<"HEADER", "PAYLOAD", "DATES", "EXPIRY">>
  /\ first.stdout = stdout

\* The stage at which a segment of the tokens drawn fails, "ok" when it
\* does not, by the way the segment was written.
StageOf(seg) ==
  IF seg \in BadBase64Segs THEN "base64"
  ELSE IF seg \in {<<>>, Seg(BrokenText)}
                  \cup {Seg(t) : t \in NonObjectTexts \ {<<"n", "u", "l", "l">>}}
  THEN "JSON"
  ELSE "ok"

\* The line names the segment and the stage.
Reports(line, what, stage) ==
  /\ line.text = what
  /\ line.err.msg = IF stage = "base64" THEN "illegal base64 data"
                    ELSE "invalid JSON"

\* C8: a decode failure names its segment, the header before the payload,
\* and its stage, base64 or JSON; an empty segment passes base64 and fails
\* as JSON.
C8_SegmentAndStage ==
  (parts # Unset /\ Len(parts) \in {2, 3} /\ pc = "exit") =>
    LET h == StageOf(parts[1])
        p == StageOf(parts[2])
    IN IF h # "ok"
       THEN Len(stderr) = 1 /\ Reports(stderr[1], "failed to decode header", h)
       ELSE IF p # "ok"
       THEN Len(stderr) = 1 /\ Reports(stderr[1], "failed to decode payload", p)
       ELSE stderr = <<>>

\* An empty header before a payload that is no base64url: the header's JSON
\* failure is the one reported.
C8_Witness ==
  /\ pc = "exit" /\ exitCode = 1
  /\ parts = << <<>>, <<"e">> >>
  /\ stderr = <<[text |-> "failed to decode header",
                 err |-> [msg |-> "invalid JSON", cause |-> "SyntaxError"]]>>

\* C9: under --json the output is one JSON object of the header and the
\* payload and nothing else; without it, HEADER, PAYLOAD, then DATES exactly
\* when a timestamp was extracted, then the expiry line exactly when exp is
\* a number.
C9_RenderModes ==
  (pc = "exit" /\ exitCode = 0 /\ ~flags.version) =>
    IF flags.json
    THEN stdout = <<[sec |-> "JSON", header |-> header, payload |-> payload]>>
    ELSE /\ Sections
              = <<"HEADER", "PAYLOAD">>
                \o (IF Len(results) > 0 THEN <<"DATES">> ELSE <<>>)
                \o (IF IsFloat64(claims, EXP) THEN <<"EXPIRY">> ELSE <<>>)
         /\ stdout[1].json = header /\ stdout[2].json = payload
         /\ \A t \in TimeTokens :
              input.raw = t.raw =>
                /\ "DATES" \in Range(Sections)
                     <=> \E i \in 1..3 : Written(t)[i].c.kind = "num"
                /\ "EXPIRY" \in Range(Sections) <=> t.exp.kind = "num"

\* A payload without a time claim: HEADER and PAYLOAD, and nothing more.
C9_Witness ==
  /\ pc = "exit" /\ exitCode = 0 /\ ~flags.json /\ ~flags.version
  /\ input.raw = Token(<<GoodHeaderSeg, Seg(SubPayload)>>)
  /\ Sections = <<"HEADER", "PAYLOAD">>

\* Both the exp line of DATES and the expiry line were printed.
BothLines ==
  /\ pc = "exit" /\ exitCode = 0 /\ ~flags.json /\ ~flags.version
  /\ results # <<>> /\ results[Len(results)].name = EXP
  /\ stdout # <<>> /\ stdout[Len(stdout)].sec = "EXPIRY"

SaysIn == SubSeq(results[Len(results)].relative, 1, 3) = Bytes(<<"i", "n", " ">>)

SaysValid == stdout[Len(stdout)].status = "VALID"

\* The clock as extractTimestamps read it for exp's "in" or "ago", and as
\* the expiry check read it.
ReadBefore == (SelectSeq(reads, LAMBDA r : r.at = "before" /\ r.claim = EXP))[1].t

ReadExpiry == (SelectSeq(reads, LAMBDA r : r.at = "expiry"))[1].t

\* C10, as the specification states it: the exp line of DATES says "in"
\* exactly when the expiry line says VALID, and "ago" exactly when it says
\* EXPIRED.
C10_LinesAgree == BothLines => (SaysIn <=> SaysValid)

\* C10, amended: the two lines agree, except that "ago" stands with VALID
\* when both readings of the clock are the expiry instant itself, and "in"
\* stands with EXPIRED when the expiry instant lies strictly between the
\* two readings.
C10_LinesAgreeOffTheInstant ==
  BothLines =>
    LET t == results[Len(results)].formatted
    IN \/ /\ SaysIn <=> SaysValid
          /\ ~(ReadBefore = t /\ ReadExpiry = t)
          /\ ~(Before(ReadBefore, t) /\ After(ReadExpiry, t))
       \/ ~SaysIn /\ SaysValid /\ ReadBefore = t /\ ReadExpiry = t
       \/ SaysIn /\ ~SaysValid /\ Before(ReadBefore, t) /\ After(ReadExpiry, t)

\* The clock advanced between the two readings, both before the expiry
\* instant, and the lines agree.
C10_Witness ==
  /\ BothLines
  /\ ReadBefore # ReadExpiry
  /\ Before(ReadExpiry, results[Len(results)].formatted)
  /\ SaysIn /\ SaysValid

=============================================================================
